---- MODULE Spec2Model ----
(***************************************************************************)
(* State-machine model of the SUMO conversion scripts:                     *)
(*   process_downloaded_areas.py  batch pipeline over the AREAS registry   *)
(*   traffic_generator.py         trips, routes and config for one network *)
(*   sumo_network.py              menu, PBF extraction, network conversion *)
(* prog says which script runs.  The external tools (netconvert,           *)
(* randomTrips.py, duarouter, osmium) and the working directory are the    *)
(* environment: every subprocess.run draws its outcome from ToolOutcomes,  *)
(* every open(path, 'w') succeeds or raises OSError, every read of a       *)
(* network file draws from NetReads.  disk, calls, io, log and reads record *)
(* what the current area (or the single-area script) found, invoked,       *)
(* wrote, printed and read; process_area touches only files named after    *)
(* its own area, so they start afresh with each area.                      *)
(***************************************************************************)
EXTENDS Integers, Sequences, FiniteSets, TLC

VARIABLES
    prog,         \* which script was started
    pc,           \* position of the running script
    idx,          \* main: 1-based position of the for loop in AREAS
    results,      \* module-level list `results`
    area_result,  \* process_area: the dict being filled in
    net_file,     \* process_area: value returned by convert_to_sumo
    route_file,   \* process_area: value returned by generate_traffic
    disk,         \* paths of the current area that exist in the working directory
    calls,        \* subprocess.run invocations made for the current area, with outcome
    io,           \* open(path, 'w') attempts made for the current area, with outcome
    log,          \* failure/success messages printed for the current area
    raised,       \* exception that left process_area ("none" if none did)
    report,       \* content written to ALL_AREAS_COMPLETE_REPORT.txt
    exit_code,    \* value returned by main (-1 while running)
    choice,       \* sumo_network: the answer typed at the menu
    reads         \* open(net_file).read() attempts made for the current area, with outcome

vars == <<prog, pc, idx, results, area_result, net_file, route_file, disk, calls, io,
          log, raised, report, exit_code, choice, reads>>

\* the batch script's own state, untouched by the single-area scripts
batchVars == <<idx, results, area_result, net_file, route_file, report, reads>>

None == "None"

\* ---------------------------------------------------------------- constants

AREAS ==
    << [name |-> "Indiranagar",  osm_file |-> "indiranagar.osm"],
       [name |-> "Whitefield",   osm_file |-> "whitefield.osm"],
       [name |-> "Koramangala",  osm_file |-> "koramangala.osm"],
       [name |-> "MG_Road",      osm_file |-> "mg_road.osm"],
       [name |-> "Jayanagar",    osm_file |-> "jayanagar.osm"],
       [name |-> "Hebbal",       osm_file |-> "hebbal.osm"],
       [name |-> "Yeshwanthpur", osm_file |-> "yeshwanthpur.osm"] >>

\* str.lower() on the registry's area names
Lower(name) ==
    CASE name = "Indiranagar"  -> "indiranagar"
      [] name = "Whitefield"   -> "whitefield"
      [] name = "Koramangala"  -> "koramangala"
      [] name = "MG_Road"      -> "mg_road"
      [] name = "Jayanagar"    -> "jayanagar"
      [] name = "Hebbal"       -> "hebbal"
      [] name = "Yeshwanthpur" -> "yeshwanthpur"

VEHICLES == 100
BASELINE_JUNCTIONS == 94
BASELINE_EDGES == 198
REQUIRED_SUCCESSFUL == 7

\* subprocess.run called without timeout=
NO_TIMEOUT == 0

\* ---------------------------------------------------------------- environment

\* What one subprocess.run can do.  kind: the tool exits 0, exits nonzero, runs
\* past the timeout, or its executable is missing.  artifact: whether the tool's
\* output path exists when the call returns (written now or left by an earlier run).
ToolOutcomes ==
    [kind : {"exit0", "nonzero"}, artifact : BOOLEAN]
        \cup [kind : {"timeout", "notfound"}, artifact : {FALSE}]

\* What open(net_file).read() gives: the file's content as the sequence of its
\* tags, or readable = FALSE when open() or read() raises.
NetReads ==
    { [readable |-> FALSE, tags |-> <<>>],
      [readable |-> TRUE,  tags |-> <<>>],
      [readable |-> TRUE,
       tags |-> [k \in 1..265 |-> IF k <= 85 THEN "<junction" ELSE "<edge"]] }

\* subprocess.run(cmd, capture_output=True, text=True, timeout=timeout) with the
\* tool behaving as o.  Without a timeout (NO_TIMEOUT) a tool that does not end
\* on its own blocks the caller for ever.
subprocess_run(o, timeout) ==
    CASE o.kind = "notfound" ->
            [exc |-> "FileNotFoundError", returncode |-> -1, blocks |-> FALSE]
      [] o.kind = "timeout"  ->
            IF timeout # NO_TIMEOUT
            THEN [exc |-> "TimeoutExpired", returncode |-> -1, blocks |-> FALSE]
            ELSE [exc |-> "none", returncode |-> -1, blocks |-> TRUE]
      [] o.kind = "exit0"    -> [exc |-> "none", returncode |-> 0, blocks |-> FALSE]
      [] o.kind = "nonzero"  -> [exc |-> "none", returncode |-> 1, blocks |-> FALSE]

\* The working directory after a tool ran with outcome o and output path out
AfterTool(d, out, o) == IF o.artifact THEN d \cup {out} ELSE d \ {out}

\* str(e) of the exceptions the environment raises
StrOf(exc) ==
    CASE exc = "TimeoutExpired"    -> "Command timed out after N seconds"
      [] exc = "FileNotFoundError" -> "[Errno 2] No such file or directory"
      [] exc = "OSError"           -> "[Errno 13] Permission denied"

\* mutant: the handlers are written `except OSError`, which TimeoutExpired is not
ExceptException_OSErrorOnly(exc) == exc \in {"FileNotFoundError", "OSError"}

\* `except Exception`: every exception the environment raises derives from Exception
ExceptException(exc) == exc \in {"TimeoutExpired", "FileNotFoundError", "OSError"}

\* ---------------------------------------------------------------- batch: stages

\* mutant: one net file name for every area
NetFile_OneName(area_name) == "network.net.xml"

NetFile(area_name)    == Lower(area_name) \o ".net.xml"
TripsFile(area_name)  == Lower(area_name) \o ".trips.xml"
RouteFile(area_name)  == Lower(area_name) \o ".rou.xml"
ConfigFile(area_name) == Lower(area_name) \o ".sumocfg"
AddFile(area_name)    == Lower(area_name) \o ".add.xml"

Call(tool, inputs, output, o) ==
    [tool |-> tool, inputs |-> inputs, output |-> output,
     kind |-> o.kind, artifact |-> o.artifact]

Msg(text, detail) == [text |-> text, detail |-> detail]

\* mutant: the exception handler prints the message of the nonzero-exit branch
convert_to_sumo_OneMessage(osm_file, area_name, o, d) ==
    LET out == NetFile(area_name)
        r   == subprocess_run(o, 300)
        d1  == AfterTool(d, out, o)
        c   == <<Call("netconvert", {osm_file}, out, o)>>
    IN  IF r.exc = "none" /\ r.returncode = 0 /\ out \in d1
        THEN [ret |-> out, exc |-> "none", disk |-> d1, calls |-> c,
              log |-> <<Msg("SUMO network created", out)>>]
        ELSE [ret |-> None, exc |-> "none", disk |-> d1, calls |-> c,
              log |-> <<Msg("netconvert failed", area_name)>>]

\* mutant: exit code 0 is taken for success, the net file is not looked for
convert_to_sumo_NoExistsCheck(osm_file, area_name, o, d) ==
    LET out == NetFile(area_name)
        r   == subprocess_run(o, 300)
        d1  == AfterTool(d, out, o)
        c   == <<Call("netconvert", {osm_file}, out, o)>>
    IN  IF r.exc # "none"
        THEN [ret |-> None, exc |-> "none", disk |-> d1, calls |-> c,
              log |-> <<Msg("Error converting", StrOf(r.exc))>>]
        ELSE IF r.returncode = 0
             THEN [ret |-> out, exc |-> "none", disk |-> d1, calls |-> c,
                   log |-> <<Msg("SUMO network created", out)>>]
             ELSE [ret |-> None, exc |-> "none", disk |-> d1, calls |-> c,
                   log |-> <<Msg("netconvert failed", area_name)>>]

\* convert_to_sumo(osm_file, area_name) with netconvert behaving as o on disk d.
\* ret: the returned value; exc: an exception the function lets through.
convert_to_sumo(osm_file, area_name, o, d) ==
    LET out == NetFile(area_name)
        r   == subprocess_run(o, 300)
        d1  == AfterTool(d, out, o)
        c   == <<Call("netconvert", {osm_file}, out, o)>>
    IN  IF r.exc # "none"
        THEN IF ExceptException(r.exc)
             THEN [ret |-> None, exc |-> "none", disk |-> d1, calls |-> c,
                   log |-> <<Msg("Error converting", StrOf(r.exc))>>]
             ELSE [ret |-> None, exc |-> r.exc, disk |-> d1, calls |-> c, log |-> <<>>]
        ELSE IF r.returncode = 0 /\ out \in d1
             THEN [ret |-> out, exc |-> "none", disk |-> d1, calls |-> c,
                   log |-> <<Msg("SUMO network created", out)>>]
             ELSE [ret |-> None, exc |-> "none", disk |-> d1, calls |-> c,
                   log |-> <<Msg("netconvert failed", area_name)>>]

\* generate_traffic(net_file, area_name): randomTrips.py behaves as o1 and, if it
\* is reached, duarouter behaves as o2.
generate_traffic(net, area_name, o1, o2, d) ==
    LET trips == TripsFile(area_name)
        out   == RouteFile(area_name)
        r1    == subprocess_run(o1, 120)
        d1    == AfterTool(d, trips, o1)
        c1    == <<Call("randomTrips", {net}, trips, o1)>>
        r2    == subprocess_run(o2, 120)
        d2    == AfterTool(d1, out, o2)
        c2    == c1 \o <<Call("duarouter", {net, trips}, out, o2)>>
        Handler(exc, dd, cc) ==
            IF ExceptException(exc)
            THEN [ret |-> None, exc |-> "none", disk |-> dd, calls |-> cc,
                  log |-> <<Msg("Error generating traffic", StrOf(exc))>>]
            ELSE [ret |-> None, exc |-> exc, disk |-> dd, calls |-> cc, log |-> <<>>]
    IN  IF r1.exc # "none" THEN Handler(r1.exc, d1, c1)
        ELSE IF r1.returncode # 0
        THEN [ret |-> None, exc |-> "none", disk |-> d1, calls |-> c1,
              log |-> <<Msg("Trip generation failed", "")>>]
        ELSE IF r2.exc # "none" THEN Handler(r2.exc, d2, c2)
        ELSE IF r2.returncode = 0 /\ out \in d2
        THEN [ret |-> out, exc |-> "none", disk |-> d2, calls |-> c2,
              log |-> <<Msg("Routes generated", out)>>]
        ELSE [ret |-> None, exc |-> "none", disk |-> d2, calls |-> c2,
              log |-> <<Msg("Route generation failed", "")>>]

\* The two open(path, 'w') of create_config: both succeed, the first raises
\* OSError, or the second does.
WriteOutcomes == {"ok", "add_fails", "config_fails"}

Write(path, ok, content) == [path |-> path, ok |-> ok, content |-> content]

\* mutant: the configuration is written to add_file, config_file is never created
create_config_WrongPath(net, route, area_name, w, d) ==
    LET cfg  == ConfigFile(area_name)
        add  == AddFile(area_name)
        body == [net |-> net, route |-> route, add |-> add]
        w1   == Write(add, w # "add_fails", [net |-> "", route |-> "", add |-> ""])
        w2   == Write(add, w = "ok", body)
    IN  IF w = "add_fails"
        THEN [ret |-> None, exc |-> "none", disk |-> d, io |-> <<w1>>,
              log |-> <<Msg("Error creating config", StrOf("OSError"))>>]
        ELSE IF w = "config_fails"
        THEN [ret |-> None, exc |-> "none", disk |-> d \cup {add}, io |-> <<w1, w2>>,
              log |-> <<Msg("Error creating config", StrOf("OSError"))>>]
        ELSE [ret |-> cfg, exc |-> "none", disk |-> d \cup {add}, io |-> <<w1, w2>>,
              log |-> <<Msg("Config created", cfg)>>]

\* create_config(net_file, route_file, area_name) with the file system behaving as w
create_config(net, route, area_name, w, d) ==
    LET cfg  == ConfigFile(area_name)
        add  == AddFile(area_name)
        body == [net |-> net, route |-> route, add |-> add]
        w1   == Write(add, w # "add_fails", [net |-> "", route |-> "", add |-> ""])
        w2   == Write(cfg, w = "ok", body)
        Handler(dd, ww) ==
            IF ExceptException("OSError")
            THEN [ret |-> None, exc |-> "none", disk |-> dd, io |-> ww,
                  log |-> <<Msg("Error creating config", StrOf("OSError"))>>]
            ELSE [ret |-> None, exc |-> "OSError", disk |-> dd, io |-> ww, log |-> <<>>]
    IN  IF w = "add_fails" THEN Handler(d, <<w1>>)
        ELSE IF w = "config_fails" THEN Handler(d \cup {add}, <<w1, w2>>)
        ELSE [ret |-> cfg, exc |-> "none", disk |-> d \cup {add, cfg}, io |-> <<w1, w2>>,
              log |-> <<Msg("Config created", cfg)>>]

\* content.count(tag): the number of positions of content that hold the tag
Count(content, tag) == Cardinality({k \in 1..Len(content) : content[k] = tag})

\* mutant: the bare except returns -1, -1 for "unknown"
get_network_stats_Unknown(rd) ==
    IF ~rd.readable THEN <<-1, -1>>
    ELSE <<Count(rd.tags, "<junction"), Count(rd.tags, "<edge")>>

\* get_network_stats(net_file): rd is what open(net_file).read() gives
get_network_stats(rd) ==
    IF ~rd.readable THEN <<0, 0>>
    ELSE <<Count(rd.tags, "<junction"), Count(rd.tags, "<edge")>>

\* ---------------------------------------------------------------- batch: process_area

\* process_area's `except Exception as e` around the three steps: an exception a
\* stage lets through is printed and the function falls to `return area_result`;
\* anything the handler does not catch leaves process_area.
ProcessAreaExcept(exc) ==
    IF ExceptException(exc)
    THEN /\ pc' = "pa_return"
         /\ raised' = raised
    ELSE /\ pc' = "crashed"
         /\ raised' = exc

\* mutant: the source-file check is dropped
SourceMissing_NoCheck(area, d) == FALSE

\* `if not os.path.exists(area['osm_file'])`
SourceMissing(area, d) == area.osm_file \notin d

\* mutant: a failed step does not return, the next step runs
AfterStage_NoReturn(ret, next) == next

\* `if not net_file: return area_result` (and the same after the later steps)
AfterStage(ret, next) == IF ret = None THEN "pa_return" ELSE next

\* mutant: the loop breaks at the first failed area
LoopNext_BreakOnFailure(i, result) ==
    IF result.status = "Failed" THEN Len(AREAS) + 1 ELSE i + 1

\* mutant: an area that failed is processed again
LoopNext_RetryFailed(i, result) == IF result.status = "Failed" THEN i ELSE i + 1

\* mutant: the loop steps over every other area
LoopNext_SkipsOne(i, result) == i + 2

\* the for loop over AREAS: the position after the area at position i gave result
LoopNext(i, result) == i + 1

\* main's loop header and call, then process_area up to the source-file check
ProcessAreaStart ==
    /\ prog = "batch" /\ pc = "main_loop" /\ idx <= Len(AREAS)
    /\ \E osm_exists \in BOOLEAN :
        LET area == AREAS[idx] IN
        /\ area_result' = [name |-> area.name, status |-> "Failed",
                           junctions |-> 0, edges |-> 0, vehicles |-> VEHICLES]
        /\ disk' = IF osm_exists THEN {area.osm_file} ELSE {}
        /\ calls' = <<>> /\ io' = <<>>
        /\ IF SourceMissing(area, disk')
           THEN /\ log' = <<Msg("ERROR: not found", area.osm_file)>>
                /\ pc' = "pa_return"
           ELSE /\ log' = <<Msg("Found", area.osm_file)>>
                /\ pc' = "pa_convert"
    /\ net_file' = None /\ route_file' = None
    /\ reads' = <<>>
    /\ UNCHANGED <<prog, idx, results, raised, report, exit_code, choice>>

\* Step 1: net_file = convert_to_sumo(...); if not net_file: return area_result
ProcessAreaConvert ==
    /\ prog = "batch" /\ pc = "pa_convert"
    /\ \E o \in ToolOutcomes :
        LET area == AREAS[idx]
            s    == convert_to_sumo(area.osm_file, area.name, o, disk)
        IN  /\ disk' = s.disk
            /\ calls' = calls \o s.calls
            /\ log' = log \o s.log
            /\ net_file' = s.ret
            /\ IF s.exc # "none" THEN ProcessAreaExcept(s.exc)
               ELSE /\ pc' = AfterStage(s.ret, "pa_stats")
                    /\ raised' = raised
    /\ UNCHANGED <<prog, idx, results, area_result, route_file, io, report, exit_code, choice, reads>>

\* junctions, edges = get_network_stats(net_file), stored in area_result
ProcessAreaStats ==
    /\ prog = "batch" /\ pc = "pa_stats"
    /\ \E rd \in NetReads :
        LET st == get_network_stats(rd) IN
        /\ area_result' = [area_result EXCEPT !.junctions = st[1], !.edges = st[2]]
        /\ reads' = Append(reads, [path |-> net_file, readable |-> rd.readable])
    /\ pc' = "pa_traffic"
    /\ UNCHANGED <<prog, idx, results, net_file, route_file, disk, calls, io, log,
                   raised, report, exit_code, choice>>

\* Step 2: route_file = generate_traffic(...); if not route_file: return area_result
ProcessAreaTraffic ==
    /\ prog = "batch" /\ pc = "pa_traffic"
    /\ \E o1 \in ToolOutcomes, o2 \in ToolOutcomes :
        LET area == AREAS[idx]
            s    == generate_traffic(net_file, area.name, o1, o2, disk)
        IN  /\ disk' = s.disk
            /\ calls' = calls \o s.calls
            /\ log' = log \o s.log
            /\ route_file' = s.ret
            /\ IF s.exc # "none" THEN ProcessAreaExcept(s.exc)
               ELSE /\ pc' = AfterStage(s.ret, "pa_config")
                    /\ raised' = raised
    /\ UNCHANGED <<prog, idx, results, area_result, net_file, io, report, exit_code, choice, reads>>

\* Step 3: config_file = create_config(...); on success status = 'Success'
ProcessAreaConfig ==
    /\ prog = "batch" /\ pc = "pa_config"
    /\ \E w \in WriteOutcomes :
        LET area == AREAS[idx]
            s    == create_config(net_file, route_file, area.name, w, disk)
        IN  /\ disk' = s.disk
            /\ io' = io \o s.io
            /\ log' = log \o s.log
            /\ IF s.exc # "none"
               THEN /\ ProcessAreaExcept(s.exc)
                    /\ area_result' = area_result
               ELSE /\ pc' = "pa_return"
                    /\ raised' = raised
                    /\ area_result' = IF AfterStage(s.ret, "pa_success") = "pa_return"
                                      THEN area_result
                                      ELSE [area_result EXCEPT !.status = "Success"]
    /\ UNCHANGED <<prog, idx, results, net_file, route_file, calls, report, exit_code, choice, reads>>

\* process_area returns; main appends the result and moves to the next area
MainAppend ==
    /\ prog = "batch" /\ pc = "pa_return"
    /\ results' = Append(results, area_result)
    /\ idx' = LoopNext(idx, area_result)
    /\ pc' = "main_loop"
    /\ UNCHANGED <<prog, area_result, net_file, route_file, disk, calls, io, log,
                   raised, report, exit_code, choice, reads>>

\* ---------------------------------------------------------------- batch: report and main

NoReport == [written |-> FALSE, sections |-> <<>>, totals |-> <<>>, run |-> <<>>]

\* The hard-coded "1. Electronic City" section
BaselineSection ==
    [num |-> 1, name |-> "Electronic City", status |-> "Completed (check mark)",
     detail |-> <<BASELINE_JUNCTIONS, BASELINE_EDGES, VEHICLES, "electronic_city.sumocfg">>]

\* mutant: the status line is written inside the `if Success` block only
ReportSection_StatusOnSuccessOnly(i, result) ==
    [num |-> i, name |-> result.name,
     status |-> IF result.status = "Success" THEN result.status ELSE "",
     detail |-> IF result.status = "Success"
                THEN <<result.junctions, result.edges, result.vehicles,
                       ConfigFile(result.name)>>
                ELSE <<>>]

\* One pass of `for i, result in enumerate(results, 2)`
ReportSection(i, result) ==
    [num |-> i, name |-> result.name, status |-> result.status,
     detail |-> IF result.status = "Success"
                THEN <<result.junctions, result.edges, result.vehicles,
                       ConfigFile(result.name)>>
                ELSE <<>>]

\* mutant: junctions and edges are added outside the `if Success` block
ReportStep_AddsFailed(acc, result) ==
    [successful      |-> acc.successful + (IF result.status = "Success" THEN 1 ELSE 0),
     total_junctions |-> acc.total_junctions + result.junctions,
     total_edges     |-> acc.total_edges + result.edges]

\* mutant: `=` written for `+=` on the two totals
ReportStep_Assigns(acc, result) ==
    IF result.status = "Success"
    THEN [successful      |-> acc.successful + 1,
          total_junctions |-> result.junctions,
          total_edges     |-> result.edges]
    ELSE acc

\* The accumulators after one pass of the loop
ReportStep(acc, result) ==
    IF result.status = "Success"
    THEN [successful      |-> acc.successful + 1,
          total_junctions |-> acc.total_junctions + result.junctions,
          total_edges     |-> acc.total_edges + result.edges]
    ELSE acc

RECURSIVE ReportLoop(_, _, _)
\* The loop over results from position i on: accumulators and written sections
ReportLoop(rs, i, st) ==
    IF i > Len(rs) THEN st
    ELSE ReportLoop(rs, i + 1,
                    [acc      |-> ReportStep(st.acc, rs[i]),
                     sections |-> Append(st.sections, ReportSection(i + 1, rs[i]))])

\* The "HOW TO RUN SIMULATIONS" lines
RunLines(rs) ==
    <<"electronic_city.sumocfg">>
        \o [k \in 1..Len(SelectSeq(rs, LAMBDA r : r.status = "Success")) |->
               ConfigFile(SelectSeq(rs, LAMBDA r : r.status = "Success")[k].name)]

\* generate_final_report(): what it writes for the module-level results rs
generate_final_report(rs) ==
    LET st == ReportLoop(rs, 1,
                  [acc |-> [successful |-> 0, total_junctions |-> BASELINE_JUNCTIONS,
                            total_edges |-> BASELINE_EDGES],
                   sections |-> <<BaselineSection>>])
    IN  [written  |-> TRUE,
         sections |-> st.sections,
         totals   |-> [areas     |-> st.acc.successful + 1,
                       junctions |-> st.acc.total_junctions,
                       edges     |-> st.acc.total_edges,
                       vehicles  |-> (st.acc.successful + 1) * 100],
         run      |-> RunLines(rs)]

\* main after the loop: report = generate_final_report()
MainReport ==
    /\ prog = "batch" /\ pc = "main_loop" /\ idx > Len(AREAS)
    /\ report' = generate_final_report(results)
    /\ pc' = "main_summary"
    /\ UNCHANGED <<prog, idx, results, area_result, net_file, route_file, disk, calls,
                   io, log, raised, exit_code, choice, reads>>

\* successful = sum(1 for r in results if r['status'] == 'Success')
Successful(rs) == Cardinality({i \in 1..Len(rs) : rs[i].status = "Success"})

\* mutant: compared with the 8 of "x/8 areas" (Electronic City counted in)
MainExitCode_Of8(successful) == IF successful = 8 THEN 0 ELSE 1

\* return 0 if successful == 7 else 1
MainExitCode(successful) == IF successful = REQUIRED_SUCCESSFUL THEN 0 ELSE 1

MainReturn ==
    /\ prog = "batch" /\ pc = "main_summary"
    /\ exit_code' = MainExitCode(Successful(results))
    /\ pc' = "done"
    /\ UNCHANGED <<prog, idx, results, area_result, net_file, route_file, disk, calls,
                   io, log, raised, report, choice, reads>>

\* ---------------------------------------------------------------- traffic_generator.py

NETWORK_FILE    == "electronic_city.net.xml"
ROUTE_FILE      == "electronic_city.rou.xml"
TRIPS_FILE      == "electronic_city.trips.xml"
CONFIG_FILE     == "electronic_city.sumocfg"
ADDITIONAL_FILE == "electronic_city.add.xml"
\* os.path.join(sumo_home, 'tools', 'randomTrips.py')
RandomTripsScript == "SUMO_HOME/tools/randomTrips.py"

\* `except subprocess.TimeoutExpired`
ExceptTimeoutExpired(exc) == exc = "TimeoutExpired"

\* `except FileNotFoundError`
ExceptFileNotFoundError(exc) == exc = "FileNotFoundError"

Stage(ret, exc, d, c, l) ==
    [ret |-> ret, exc |-> exc, blocks |-> FALSE, disk |-> d, calls |-> c, log |-> l]

\* mutant: the network file is not looked for
check_files_NoCheck(d) == Stage(TRUE, "none", d, <<>>, <<Msg("Found", NETWORK_FILE)>>)

\* check_files()
check_files(d) ==
    IF NETWORK_FILE \notin d
    THEN Stage(FALSE, "none", d, <<>>, <<Msg("ERROR: not found", NETWORK_FILE)>>)
    ELSE Stage(TRUE, "none", d, <<>>, <<Msg("Found", NETWORK_FILE)>>)

\* generate_random_trips() with randomTrips.py behaving as o
generate_random_trips(o, d) ==
    LET r  == subprocess_run(o, 120)
        d1 == AfterTool(d, TRIPS_FILE, o)
        c  == <<Call("randomTrips", {NETWORK_FILE}, TRIPS_FILE, o)>>
    IN  IF RandomTripsScript \notin d
        THEN Stage(FALSE, "none", d, <<>>, <<Msg("ERROR: randomTrips.py not found", "")>>)
        ELSE IF r.exc # "none"
        THEN IF ExceptTimeoutExpired(r.exc)
             THEN Stage(FALSE, "none", d1, c, <<Msg("Trip generation timed out", "")>>)
             ELSE IF ExceptException(r.exc)
             THEN Stage(FALSE, "none", d1, c, <<Msg("Error", StrOf(r.exc))>>)
             ELSE Stage(FALSE, r.exc, d1, c, <<>>)
        ELSE IF r.returncode = 0 /\ TRIPS_FILE \in d1
        THEN Stage(TRUE, "none", d1, c, <<Msg("Trips file generated", TRIPS_FILE)>>)
        ELSE Stage(FALSE, "none", d1, c, <<Msg("Failed to generate trips", "")>>)

\* generate_routes() with duarouter behaving as o
generate_routes(o, d) ==
    LET r  == subprocess_run(o, 120)
        d1 == AfterTool(d, ROUTE_FILE, o)
        c  == <<Call("duarouter", {NETWORK_FILE, TRIPS_FILE}, ROUTE_FILE, o)>>
    IN  IF r.exc # "none"
        THEN IF ExceptTimeoutExpired(r.exc)
             THEN Stage(FALSE, "none", d1, c, <<Msg("Route generation timed out", "")>>)
             ELSE IF ExceptException(r.exc)
             THEN Stage(FALSE, "none", d1, c, <<Msg("Error", StrOf(r.exc))>>)
             ELSE Stage(FALSE, r.exc, d1, c, <<>>)
        ELSE IF r.returncode = 0 /\ ROUTE_FILE \in d1
        THEN Stage(TRUE, "none", d1, c, <<Msg("Route file generated", ROUTE_FILE)>>)
        ELSE Stage(FALSE, "none", d1, c, <<Msg("Failed to generate routes", "")>>)

\* create_additional_file() / create_config_file(): one open(path, 'w') that
\* succeeds (ok) or raises OSError
WriteFile(path, ok, d, what) ==
    IF ok THEN Stage(TRUE, "none", d \cup {path}, <<>>, <<Msg(what \o " created", path)>>)
    ELSE IF ExceptException("OSError")
    THEN Stage(FALSE, "none", d, <<>>, <<Msg("Error creating " \o what, StrOf("OSError"))>>)
    ELSE Stage(FALSE, "OSError", d, <<>>, <<>>)

create_additional_file(ok, d) == WriteFile(ADDITIONAL_FILE, ok, d, "additional file")

create_config_file(ok, d) == WriteFile(CONFIG_FILE, ok, d, "config file")

\* mutant: a stage's False is not tested, main goes on to the next step
MainStep_IgnoresFalse(s, next) ==
    /\ disk' = s.disk
    /\ calls' = calls \o s.calls
    /\ log' = log \o s.log
    /\ IF s.blocks
       THEN pc' = "blocked" /\ exit_code' = exit_code /\ raised' = raised
       ELSE IF s.exc # "none"
       THEN pc' = "done" /\ exit_code' = 1 /\ raised' = raised
       ELSE /\ pc' = next
            /\ exit_code' = IF next = "done" THEN 0 ELSE exit_code
            /\ raised' = raised

\* One step of a single-area main: run stage s; on failure return 1, else go to next.
\* An exception the stage lets through reaches main's `except Exception`.
MainStep(s, next) ==
    /\ disk' = s.disk
    /\ calls' = calls \o s.calls
    /\ log' = log \o s.log
    /\ IF s.blocks
       THEN pc' = "blocked" /\ exit_code' = exit_code /\ raised' = raised
       ELSE IF s.exc # "none"
       THEN IF ExceptException(s.exc)
            THEN pc' = "done" /\ exit_code' = 1 /\ raised' = raised
            ELSE pc' = "crashed" /\ exit_code' = exit_code /\ raised' = s.exc
       ELSE IF ~s.ret
       THEN pc' = "done" /\ exit_code' = 1 /\ raised' = raised
       ELSE /\ pc' = next
            /\ exit_code' = IF next = "done" THEN 0 ELSE exit_code
            /\ raised' = raised

TgCheckFiles ==
    /\ prog = "traffic" /\ pc = "tg_check"
    /\ MainStep(check_files(disk), "tg_trips")
    /\ UNCHANGED <<prog, batchVars, io, choice>>

TgTrips ==
    /\ prog = "traffic" /\ pc = "tg_trips"
    /\ \E o \in ToolOutcomes : MainStep(generate_random_trips(o, disk), "tg_routes")
    /\ UNCHANGED <<prog, batchVars, io, choice>>

TgRoutes ==
    /\ prog = "traffic" /\ pc = "tg_routes"
    /\ \E o \in ToolOutcomes : MainStep(generate_routes(o, disk), "tg_add")
    /\ UNCHANGED <<prog, batchVars, io, choice>>

TgAdditional ==
    /\ prog = "traffic" /\ pc = "tg_add"
    /\ \E ok \in BOOLEAN :
        /\ MainStep(create_additional_file(ok, disk), "tg_config")
        /\ io' = Append(io, Write(ADDITIONAL_FILE, ok, [net |-> "", route |-> "", add |-> ""]))
    /\ UNCHANGED <<prog, batchVars, choice>>

TgConfig ==
    /\ prog = "traffic" /\ pc = "tg_config"
    /\ \E ok \in BOOLEAN :
        /\ MainStep(create_config_file(ok, disk), "done")
        /\ io' = Append(io, Write(CONFIG_FILE, ok, [net |-> NETWORK_FILE,
                                  route |-> ROUTE_FILE, add |-> ADDITIONAL_FILE]))
    /\ UNCHANGED <<prog, batchVars, choice>>

\* ---------------------------------------------------------------- sumo_network.py

OSM_FILE      == "electronic_city.osm"
SUMO_NET_FILE == "electronic_city.net.xml"
\* the file name typed at "Enter the PBF filename"
PBF_FILE      == "karnataka-latest.osm.pbf"

\* Outcomes of a `--version` probe, which writes no file
ProbeOutcomes == {o \in ToolOutcomes : ~o.artifact}

Blocked(d, c) ==
    [ret |-> FALSE, exc |-> "none", blocks |-> TRUE, disk |-> d, calls |-> c, log |-> <<>>]

\* check_osmium() with `osmium --version` behaving as o
check_osmium(o, d) ==
    LET r == subprocess_run(o, NO_TIMEOUT)
        c == <<Call("osmium --version", {}, "", o)>>
    IN  IF r.blocks THEN Blocked(d, c)
        ELSE IF r.exc # "none"
        THEN IF ExceptFileNotFoundError(r.exc) THEN Stage(FALSE, "none", d, c, <<>>)
             ELSE Stage(FALSE, r.exc, d, c, <<>>)
        ELSE Stage(TRUE, "none", d, c, <<>>)

\* extract_from_pbf(pbf_file): the probe behaves as ov, `osmium extract` as o
extract_from_pbf(pbf_file, ov, o, d) ==
    LET probe == check_osmium(ov, d)
        r     == subprocess_run(o, NO_TIMEOUT)
        d1    == AfterTool(d, OSM_FILE, o)
        c     == probe.calls \o <<Call("osmium extract", {pbf_file}, OSM_FILE, o)>>
    IN  IF probe.blocks \/ probe.exc # "none" THEN probe
        ELSE IF ~probe.ret
        THEN Stage(FALSE, "none", d, probe.calls, <<Msg("osmium-tool not found", "")>>)
        ELSE IF r.blocks THEN Blocked(d, c)
        ELSE IF r.exc # "none"
        THEN IF ExceptException(r.exc)
             THEN Stage(FALSE, "none", d1, c, <<Msg("Error", StrOf(r.exc))>>)
             ELSE Stage(FALSE, r.exc, d1, c, <<>>)
        ELSE IF r.returncode = 0 /\ OSM_FILE \in d1
        THEN Stage(TRUE, "none", d1, c, <<Msg("Successfully extracted", OSM_FILE)>>)
        ELSE Stage(FALSE, "none", d1, c, <<Msg("Extraction failed", "")>>)

\* sumo_network.convert_to_sumo(osm_file, sumo_net_file): `netconvert --version`
\* behaves as ov and the conversion as o
network_convert_to_sumo(osm_file, sumo_net_file, ov, o, d) ==
    LET rv == subprocess_run(ov, 5)
        cv == <<Call("netconvert --version", {}, "", ov)>>
        r  == subprocess_run(o, 600)
        d1 == AfterTool(d, sumo_net_file, o)
        c  == cv \o <<Call("netconvert", {osm_file}, sumo_net_file, o)>>
    IN  IF osm_file \notin d
        THEN Stage(FALSE, "none", d, <<>>, <<Msg("ERROR: not found", osm_file)>>)
        ELSE IF rv.exc # "none"
        THEN IF ExceptFileNotFoundError(rv.exc)
             THEN Stage(FALSE, "none", d, cv, <<Msg("ERROR: 'netconvert' command not found", "")>>)
             ELSE IF ExceptException(rv.exc)
             THEN Stage(FALSE, "none", d, cv, <<Msg("Error checking netconvert", StrOf(rv.exc))>>)
             ELSE Stage(FALSE, rv.exc, d, cv, <<>>)
        ELSE IF r.exc # "none"
        THEN IF ExceptTimeoutExpired(r.exc)
             THEN Stage(FALSE, "none", d1, c, <<Msg("netconvert timed out", "")>>)
             ELSE IF ExceptException(r.exc)
             THEN Stage(FALSE, "none", d1, c, <<Msg("Error running netconvert", StrOf(r.exc))>>)
             ELSE Stage(FALSE, r.exc, d1, c, <<>>)
        ELSE IF r.returncode = 0
        THEN IF sumo_net_file \in d1
             THEN Stage(TRUE, "none", d1, c, <<Msg("SUMO network created successfully", sumo_net_file)>>)
             ELSE Stage(FALSE, "none", d1, c,
                        <<Msg("netconvert completed but output file not found", "")>>)
        ELSE Stage(FALSE, "none", d1, c, <<Msg("netconvert failed with return code", "")>>)

Choices == {"1", "2", "3", "9"}

\* mutant: the `else` branch prints "Invalid choice!" and does not return
SnMenu_InvalidFallsThrough ==
    /\ prog = "network" /\ pc = "sn_menu"
    /\ \E c \in Choices :
        /\ choice' = c
        /\ CASE c = "1" ->
                  IF OSM_FILE \notin disk
                  THEN pc' = "done" /\ exit_code' = 1
                  ELSE pc' = "sn_convert" /\ exit_code' = exit_code
             [] c = "2" ->
                  IF PBF_FILE \notin disk
                  THEN pc' = "done" /\ exit_code' = 1
                  ELSE pc' = "sn_extract" /\ exit_code' = exit_code
             [] c = "3" -> pc' = "done" /\ exit_code' = 0
             [] OTHER   -> pc' = "sn_convert" /\ exit_code' = exit_code
    /\ UNCHANGED <<prog, batchVars, disk, calls, io, log, raised>>

\* main: choice = method_manual_download() and the branch on it
SnMenu ==
    /\ prog = "network" /\ pc = "sn_menu"
    /\ \E c \in Choices :
        /\ choice' = c
        /\ CASE c = "1" ->
                  IF OSM_FILE \notin disk
                  THEN pc' = "done" /\ exit_code' = 1
                  ELSE pc' = "sn_convert" /\ exit_code' = exit_code
             [] c = "2" ->
                  IF PBF_FILE \notin disk
                  THEN pc' = "done" /\ exit_code' = 1
                  ELSE pc' = "sn_extract" /\ exit_code' = exit_code
             [] c = "3" -> pc' = "done" /\ exit_code' = 0
             [] OTHER   -> pc' = "done" /\ exit_code' = 1
    /\ UNCHANGED <<prog, batchVars, disk, calls, io, log, raised>>

\* main, choice '2': if not extract_from_pbf(pbf_file): return 1
SnExtract ==
    /\ prog = "network" /\ pc = "sn_extract"
    /\ \E ov \in ProbeOutcomes, o \in ToolOutcomes :
        MainStep(extract_from_pbf(PBF_FILE, ov, o, disk), "sn_convert")
    /\ UNCHANGED <<prog, batchVars, io, choice>>

\* main: if not convert_to_sumo(OSM_FILE, SUMO_NET_FILE): return 1; else return 0
SnConvert ==
    /\ prog = "network" /\ pc = "sn_convert"
    /\ \E ov \in ProbeOutcomes, o \in ToolOutcomes :
        MainStep(network_convert_to_sumo(OSM_FILE, SUMO_NET_FILE, ov, o, disk), "done")
    /\ UNCHANGED <<prog, batchVars, io, choice>>

\* ---------------------------------------------------------------- specification

Programs == {"batch", "traffic", "network"}

\* The files a script's first check can find in the working directory
InitialDisk(p) ==
    CASE p = "batch"   -> {{}}
      [] p = "traffic" -> SUBSET {NETWORK_FILE, RandomTripsScript}
      [] p = "network" -> SUBSET {OSM_FILE, PBF_FILE}

EntryPoint(p) ==
    CASE p = "batch"   -> "main_loop"
      [] p = "traffic" -> "tg_check"
      [] p = "network" -> "sn_menu"

Init ==
    /\ prog \in Programs
    /\ pc = EntryPoint(prog)
    /\ idx = 1
    /\ results = <<>>
    /\ area_result = [name |-> "", status |-> "Failed", junctions |-> 0, edges |-> 0,
                      vehicles |-> VEHICLES]
    /\ net_file = None /\ route_file = None
    /\ disk \in InitialDisk(prog)
    /\ calls = <<>> /\ io = <<>> /\ log = <<>>
    /\ raised = "none"
    /\ report = NoReport
    /\ exit_code = -1
    /\ choice = ""
    /\ reads = <<>>

Next ==
    \/ ProcessAreaStart
    \/ ProcessAreaConvert
    \/ ProcessAreaStats
    \/ ProcessAreaTraffic
    \/ ProcessAreaConfig
    \/ MainAppend
    \/ MainReport
    \/ MainReturn
    \/ TgCheckFiles
    \/ TgTrips
    \/ TgRoutes
    \/ TgAdditional
    \/ TgConfig
    \/ SnMenu
    \/ SnExtract
    \/ SnConvert

Spec == Init /\ [][Next]_vars

\* ---------------------------------------------------------------- quick_report_generator.py

\* quick_report_generator's own AREAS; area_km2 in tenths of a square kilometre
QuickAREAS ==
    << [name |-> "Indiranagar",  estimated_junctions |-> 85, estimated_edges |-> 180, area_km2 |-> 18],
       [name |-> "Whitefield",   estimated_junctions |-> 92, estimated_edges |-> 195, area_km2 |-> 20],
       [name |-> "Koramangala",  estimated_junctions |-> 88, estimated_edges |-> 185, area_km2 |-> 19],
       [name |-> "MG Road",      estimated_junctions |-> 76, estimated_edges |-> 165, area_km2 |-> 15],
       [name |-> "Jayanagar",    estimated_junctions |-> 82, estimated_edges |-> 175, area_km2 |-> 17],
       [name |-> "Hebbal",       estimated_junctions |-> 95, estimated_edges |-> 200, area_km2 |-> 21],
       [name |-> "Yeshwanthpur", estimated_junctions |-> 78, estimated_edges |-> 170, area_km2 |-> 16] >>

ELECTRONIC_CITY ==
    [name |-> "Electronic City", junctions |-> 94, edges |-> 198, area_km2 |-> 15,
     vehicles |-> 100, status |-> "Completed (check mark)"]

\* The clock, in ticks of half a second; datetime.now() draws from Times
MaxTime == 3
Times == 1..MaxTime

\* start_time = datetime.now() at import of process_downloaded_areas
start_time == 0

\* strftime('%Y-%m-%d %H:%M:%S'): the time cut to whole seconds
strftime(t) == t \div 2

RECURSIVE SumArea(_)
\* sum(a['area_km2'] for a in AREAS)
SumArea(as) == IF as = <<>> THEN 0 ELSE Head(as).area_km2 + SumArea(Tail(as))

\* mutant: the date is written a second time, in the closing lines
generate_detailed_report_DateInFooter(now) ==
    [generated |-> strftime(now),
     completed |-> <<ELECTRONIC_CITY.name, ELECTRONIC_CITY.area_km2,
                     ELECTRONIC_CITY.junctions, ELECTRONIC_CITY.edges,
                     ELECTRONIC_CITY.vehicles>>,
     planned   |-> [i \in 1..Len(QuickAREAS) |->
                       [num |-> i, name |-> QuickAREAS[i].name,
                        area_km2 |-> QuickAREAS[i].area_km2,
                        junctions |-> QuickAREAS[i].estimated_junctions,
                        edges |-> QuickAREAS[i].estimated_edges, vehicles |-> 100]],
     footer    |-> now]

\* generate_detailed_report() run at time now: the lines that carry data
generate_detailed_report(now) ==
    [generated |-> strftime(now),
     completed |-> <<ELECTRONIC_CITY.name, ELECTRONIC_CITY.area_km2,
                     ELECTRONIC_CITY.junctions, ELECTRONIC_CITY.edges,
                     ELECTRONIC_CITY.vehicles>>,
     planned   |-> [i \in 1..Len(QuickAREAS) |->
                       [num |-> i, name |-> QuickAREAS[i].name,
                        area_km2 |-> QuickAREAS[i].area_km2,
                        junctions |-> QuickAREAS[i].estimated_junctions,
                        edges |-> QuickAREAS[i].estimated_edges, vehicles |-> 100]]]

\* generate_presentation_summary()
generate_presentation_summary ==
    [completed |-> <<ELECTRONIC_CITY.junctions, ELECTRONIC_CITY.edges, 100>>,
     ready     |-> [i \in 1..Len(QuickAREAS) |-> QuickAREAS[i].name],
     coverage  |-> <<ELECTRONIC_CITY.area_km2, SumArea(QuickAREAS),
                     ELECTRONIC_CITY.area_km2 + SumArea(QuickAREAS)>>]

\* generate_area_details_csv(): the rows after the header line
generate_area_details_csv ==
    << <<ELECTRONIC_CITY.name, ELECTRONIC_CITY.junctions, ELECTRONIC_CITY.edges,
         ELECTRONIC_CITY.area_km2, 100, "Completed">> >>
       \o [i \in 1..Len(QuickAREAS) |->
              <<QuickAREAS[i].name, QuickAREAS[i].estimated_junctions,
                QuickAREAS[i].estimated_edges, QuickAREAS[i].area_km2, 100, "Ready">>]

\* ---------------------------------------------------------------- the renderers alone

\* The whole of ALL_AREAS_COMPLETE_REPORT.txt: the two header lines that depend
\* on the clock (t1, t2: the two datetime.now() of the header), then the rest
FinalReportFile(rs, t1, t2) ==
    [completion_date |-> strftime(t1),
     processing_time |-> t2 - start_time,
     body            |-> generate_final_report(rs)]

\* What process_area can return for an area
AreaResults(area) ==
    { [name |-> area.name, status |-> s, junctions |-> get_network_stats(rd)[1],
       edges |-> get_network_stats(rd)[2], vehicles |-> VEHICLES] :
      s \in {"Success", "Failed"}, rd \in NetReads }

\* The results lists the renderers are applied to: one result per area for the
\* first n areas of the registry, n <= MaxResults
MaxResults == 3
ResultLists ==
    UNION { { rs \in [1..n -> UNION {AreaResults(AREAS[i]) : i \in 1..n}] :
                \A i \in 1..n : rs[i] \in AreaResults(AREAS[i]) } : n \in 0..MaxResults }

\* generate_final_report() called on the current results, at most twice
RenderFinalReport ==
    /\ prog = "render" /\ Len(io) < 2
    /\ \E t1 \in Times, t2 \in Times :
        /\ t1 <= t2
        /\ io' = Append(io, Write("ALL_AREAS_COMPLETE_REPORT.txt", TRUE,
                                  FinalReportFile(results, t1, t2)))
    /\ report' = generate_final_report(results)
    /\ UNCHANGED <<prog, pc, idx, results, area_result, net_file, route_file, disk,
                   calls, log, raised, exit_code, choice, reads>>

RenderDetailed ==
    /\ prog = "render" /\ Len(io) < 2
    /\ \E now \in Times :
        io' = Append(io, Write("Digital_Twin_Implementation_Report.txt", TRUE,
                               generate_detailed_report(now)))
    /\ UNCHANGED <<prog, pc, idx, results, area_result, net_file, route_file, disk,
                   calls, log, raised, report, exit_code, choice, reads>>

RenderSummary ==
    /\ prog = "render" /\ Len(io) < 2
    /\ io' = Append(io, Write("Quick_Summary_For_Boss.txt", TRUE,
                              generate_presentation_summary))
    /\ UNCHANGED <<prog, pc, idx, results, area_result, net_file, route_file, disk,
                   calls, log, raised, report, exit_code, choice, reads>>

RenderCsv ==
    /\ prog = "render" /\ Len(io) < 2
    /\ io' = Append(io, Write("Area_Coverage_Details.csv", TRUE,
                              generate_area_details_csv))
    /\ UNCHANGED <<prog, pc, idx, results, area_result, net_file, route_file, disk,
                   calls, log, raised, report, exit_code, choice, reads>>

InitRender ==
    /\ prog = "render" /\ pc = "render"
    /\ idx = 1
    /\ results \in ResultLists
    /\ area_result = [name |-> "", status |-> "Failed", junctions |-> 0, edges |-> 0,
                      vehicles |-> VEHICLES]
    /\ net_file = None /\ route_file = None
    /\ disk = {} /\ calls = <<>> /\ io = <<>> /\ log = <<>>
    /\ raised = "none"
    /\ report = NoReport
    /\ exit_code = -1
    /\ choice = ""
    /\ reads = <<>>

NextRender ==
    \/ RenderFinalReport
    \/ RenderDetailed
    \/ RenderSummary
    \/ RenderCsv

SpecRender == InitRender /\ [][NextRender]_vars

\* ---------------------------------------------------------------- the precondition stages alone

\* The stage functions that test a precondition before anything else
PreconditionStages == {"convert_to_sumo", "check_files", "generate_random_trips"}

\* The files a stage can find when it is called: sources, the script, and
\* outputs left by an earlier run
StageDisks ==
    SUBSET {OSM_FILE, NETWORK_FILE, RandomTripsScript, TRIPS_FILE}

\* sumo_network.convert_to_sumo(OSM_FILE, SUMO_NET_FILE) called on the current disk
StageConvert ==
    /\ prog = "convert_to_sumo" /\ pc = "stage"
    /\ \E ov \in ProbeOutcomes, o \in ToolOutcomes :
        MainStep(network_convert_to_sumo(OSM_FILE, SUMO_NET_FILE, ov, o, disk), "done")
    /\ UNCHANGED <<prog, batchVars, io, choice>>

\* traffic_generator.check_files() called on the current disk
StageCheckFiles ==
    /\ prog = "check_files" /\ pc = "stage"
    /\ MainStep(check_files(disk), "done")
    /\ UNCHANGED <<prog, batchVars, io, choice>>

\* traffic_generator.generate_random_trips() called on the current disk
StageRandomTrips ==
    /\ prog = "generate_random_trips" /\ pc = "stage"
    /\ \E o \in ToolOutcomes : MainStep(generate_random_trips(o, disk), "done")
    /\ UNCHANGED <<prog, batchVars, io, choice>>

InitStages ==
    /\ prog \in PreconditionStages
    /\ pc = "stage"
    /\ idx = 1
    /\ results = <<>>
    /\ area_result = [name |-> "", status |-> "Failed", junctions |-> 0, edges |-> 0,
                      vehicles |-> VEHICLES]
    /\ net_file = None /\ route_file = None
    /\ disk \in StageDisks
    /\ calls = <<>> /\ io = <<>> /\ log = <<>>
    /\ raised = "none"
    /\ report = NoReport
    /\ exit_code = -1
    /\ choice = ""
    /\ reads = <<>>

NextStages ==
    \/ StageConvert
    \/ StageCheckFiles
    \/ StageRandomTrips

SpecStages == InitStages /\ [][NextStages]_vars

\* ---------------------------------------------------------------- process_area run concurrently

\* Several process_area(area, index) calls for distinct areas of the registry
\* run at once in one working directory.  pc, area_result, net_file, route_file,
\* calls, io, log and reads hold one value per running area; disk is the shared
\* working directory; the module-level results list is not process_area's to
\* touch.  Each step of one call is one action, and the calls interleave freely.

\* The sets of registry positions that run together
RunningSets == {S \in SUBSET (1..Len(AREAS)) : Cardinality(S) = 2}

Running == DOMAIN pc

\* open(net_file).read() on the shared directory: it raises when the file is not
\* there, and gives rd otherwise
ReadOn(d, path, rd) ==
    IF path \in d THEN rd ELSE [readable |-> FALSE, tags |-> <<>>]

\* process_area up to the source-file check
ConcStart ==
    /\ prog = "concurrent"
    /\ \E a \in Running :
        /\ pc[a] = "pa_start"
        /\ IF SourceMissing(AREAS[a], disk)
           THEN /\ log' = [log EXCEPT ![a] = <<Msg("ERROR: not found", AREAS[a].osm_file)>>]
                /\ pc' = [pc EXCEPT ![a] = "pa_return"]
           ELSE /\ log' = [log EXCEPT ![a] = <<Msg("Found", AREAS[a].osm_file)>>]
                /\ pc' = [pc EXCEPT ![a] = "pa_convert"]
    /\ UNCHANGED <<prog, idx, results, area_result, net_file, route_file, disk, calls,
                   io, raised, report, exit_code, choice, reads>>

\* Step 1 of one of the calls
ConcConvert ==
    /\ prog = "concurrent"
    /\ \E a \in Running, o \in ToolOutcomes :
        LET s == convert_to_sumo(AREAS[a].osm_file, AREAS[a].name, o, disk) IN
        /\ pc[a] = "pa_convert"
        /\ disk' = s.disk
        /\ calls' = [calls EXCEPT ![a] = @ \o s.calls]
        /\ log' = [log EXCEPT ![a] = @ \o s.log]
        /\ net_file' = [net_file EXCEPT ![a] = s.ret]
        /\ pc' = [pc EXCEPT ![a] = IF s.exc # "none" THEN "pa_return"
                                   ELSE AfterStage(s.ret, "pa_stats")]
    /\ UNCHANGED <<prog, idx, results, area_result, route_file, io, raised, report,
                   exit_code, choice, reads>>

\* get_network_stats of one of the calls
ConcStats ==
    /\ prog = "concurrent"
    /\ \E a \in Running, rd \in NetReads :
        LET got == ReadOn(disk, net_file[a], rd)
            st  == get_network_stats(got)
        IN  /\ pc[a] = "pa_stats"
            /\ area_result' = [area_result EXCEPT ![a].junctions = st[1], ![a].edges = st[2]]
            /\ reads' = [reads EXCEPT ![a] = Append(@, [path |-> net_file[a],
                                                        readable |-> got.readable,
                                                        file |-> rd])]
            /\ pc' = [pc EXCEPT ![a] = "pa_traffic"]
    /\ UNCHANGED <<prog, idx, results, net_file, route_file, disk, calls, io, log,
                   raised, report, exit_code, choice>>

\* Step 2 of one of the calls
ConcTraffic ==
    /\ prog = "concurrent"
    /\ \E a \in Running, o1 \in ToolOutcomes, o2 \in ToolOutcomes :
        LET s == generate_traffic(net_file[a], AREAS[a].name, o1, o2, disk) IN
        /\ pc[a] = "pa_traffic"
        /\ disk' = s.disk
        /\ calls' = [calls EXCEPT ![a] = @ \o s.calls]
        /\ log' = [log EXCEPT ![a] = @ \o s.log]
        /\ route_file' = [route_file EXCEPT ![a] = s.ret]
        /\ pc' = [pc EXCEPT ![a] = IF s.exc # "none" THEN "pa_return"
                                   ELSE AfterStage(s.ret, "pa_config")]
    /\ UNCHANGED <<prog, idx, results, area_result, net_file, io, raised, report,
                   exit_code, choice, reads>>

\* Step 3 of one of the calls
ConcConfig ==
    /\ prog = "concurrent"
    /\ \E a \in Running, w \in WriteOutcomes :
        LET s == create_config(net_file[a], route_file[a], AREAS[a].name, w, disk) IN
        /\ pc[a] = "pa_config"
        /\ disk' = s.disk
        /\ io' = [io EXCEPT ![a] = @ \o s.io]
        /\ log' = [log EXCEPT ![a] = @ \o s.log]
        /\ pc' = [pc EXCEPT ![a] = "pa_return"]
        /\ area_result' = IF s.exc # "none" \/ AfterStage(s.ret, "pa_success") = "pa_return"
                          THEN area_result
                          ELSE [area_result EXCEPT ![a].status = "Success"]
    /\ UNCHANGED <<prog, idx, results, net_file, route_file, calls, raised, report,
                   exit_code, choice, reads>>

\* `return area_result` of one of the calls
ConcReturn ==
    /\ prog = "concurrent"
    /\ \E a \in Running :
        /\ pc[a] = "pa_return"
        /\ pc' = [pc EXCEPT ![a] = "returned"]
    /\ UNCHANGED <<prog, idx, results, area_result, net_file, route_file, disk, calls,
                   io, log, raised, report, exit_code, choice, reads>>

InitConcurrent ==
    /\ prog = "concurrent"
    /\ \E S \in RunningSets :
        /\ pc = [a \in S |-> "pa_start"]
        /\ area_result = [a \in S |-> [name |-> AREAS[a].name, status |-> "Failed",
                                       junctions |-> 0, edges |-> 0, vehicles |-> VEHICLES]]
        /\ net_file = [a \in S |-> None]
        /\ route_file = [a \in S |-> None]
        /\ calls = [a \in S |-> <<>>]
        /\ io = [a \in S |-> <<>>]
        /\ log = [a \in S |-> <<>>]
        /\ reads = [a \in S |-> <<>>]
        /\ disk \in SUBSET {AREAS[a].osm_file : a \in S}
    /\ idx = 1
    /\ results = <<>>
    /\ raised = "none"
    /\ report = NoReport
    /\ exit_code = -1
    /\ choice = ""

NextConcurrent ==
    \/ ConcStart
    \/ ConcConvert
    \/ ConcStats
    \/ ConcTraffic
    \/ ConcConfig
    \/ ConcReturn

SpecConcurrent == InitConcurrent /\ [][NextConcurrent]_vars

\* ---------------------------------------------------------------- properties

\* process_area is about to return area_result for AREAS[idx]
AtReturn == prog = "batch" /\ pc = "pa_return"

ToolsOf(cs) == [k \in 1..Len(cs) |-> cs[k].tool]

\* C1: process_area returns 'Success' only if every stage completed (every tool
\* exited 0, both config files were written) and the network, trips, routes and
\* config artifacts of the area exist on disk.
C1_SuccessOnlyWithAllArtifacts ==
    (AtReturn /\ area_result.status = "Success") =>
        LET n == AREAS[idx].name IN
        /\ ToolsOf(calls) = <<"netconvert", "randomTrips", "duarouter">>
        /\ \A k \in 1..Len(calls) : calls[k].kind = "exit0"
        /\ Len(io) = 2 /\ \A k \in 1..Len(io) : io[k].ok
        /\ {NetFile(n), TripsFile(n), RouteFile(n), ConfigFile(n)} \subseteq disk

\* C1, without the trips artifact: what the code does guarantee on 'Success'
C1_SuccessOnlyWithCheckedArtifacts ==
    (AtReturn /\ area_result.status = "Success") =>
        LET n == AREAS[idx].name IN
        /\ ToolsOf(calls) = <<"netconvert", "randomTrips", "duarouter">>
        /\ \A k \in 1..Len(calls) : calls[k].kind = "exit0"
        /\ Len(io) = 2 /\ \A k \in 1..Len(io) : io[k].ok
        /\ {NetFile(n), RouteFile(n), ConfigFile(n), AddFile(n)} \subseteq disk

\* The five artifact paths of an area
Artifacts(n) == {NetFile(n), TripsFile(n), RouteFile(n), AddFile(n), ConfigFile(n)}

\* The source file was there and every tool invoked exited 0 with its output present
ToolsAllSucceeded ==
    /\ AREAS[idx].osm_file \in disk
    /\ \A k \in 1..Len(calls) : calls[k].kind = "exit0" /\ calls[k].artifact

\* C2 as stated: source file present and all tools exit 0 with their artifacts
\* => 'Success' and all five artifacts on disk.
C2_ToolsSucceedImpliesSuccess ==
    (AtReturn /\ ToolsAllSucceeded) =>
        /\ area_result.status = "Success"
        /\ Artifacts(AREAS[idx].name) \subseteq disk

\* C2 amended: source file present, all tools exit 0 with their artifacts and no
\* open() of create_config fails => 'Success' and all five artifacts on disk.
C2_ToolsAndWritesSucceedImpliesSuccess ==
    (AtReturn /\ ToolsAllSucceeded /\ \A k \in 1..Len(io) : io[k].ok) =>
        /\ area_result.status = "Success"
        /\ Artifacts(AREAS[idx].name) \subseteq disk

C2_Witness ==
    /\ AtReturn /\ ToolsAllSucceeded /\ Len(calls) = 3
    /\ Len(io) = 2 /\ \A k \in 1..Len(io) : io[k].ok
    /\ area_result.status = "Success"

InProcessArea ==
    prog = "batch" /\ pc \in {"pa_convert", "pa_stats", "pa_traffic", "pa_config", "pa_return"}

\* C3: an area whose source file is missing ends 'Failed' at the check before
\* step 1 (the only message is the "not found" error) and no tool is invoked.
C3_MissingSourceFailsWithoutTools ==
    (InProcessArea /\ AREAS[idx].osm_file \notin disk) =>
        /\ pc = "pa_return"
        /\ area_result.status = "Failed"
        /\ calls = <<>> /\ io = <<>>
        /\ log = <<Msg("ERROR: not found", AREAS[idx].osm_file)>>

C3_Witness == AtReturn /\ AREAS[idx].osm_file \notin disk /\ calls = <<>>

\* A tool-backed stage reported failure on this invocation: the tool did not exit 0
\* (nonzero, timeout, executable missing), or netconvert/duarouter left no output
StageFailedOn(c) ==
    \/ c.kind # "exit0"
    \/ c.tool \in {"netconvert", "duarouter"} /\ ~c.artifact

Succeeded(rs) == SelectSeq(rs, LAMBDA r : r.status = "Success")

RECURSIVE SumJunctions(_), SumEdges(_), SumVehicles(_)
SumJunctions(rs) == IF rs = <<>> THEN 0 ELSE Head(rs).junctions + SumJunctions(Tail(rs))
SumEdges(rs)     == IF rs = <<>> THEN 0 ELSE Head(rs).edges + SumEdges(Tail(rs))
SumVehicles(rs)  == IF rs = <<>> THEN 0 ELSE Head(rs).vehicles + SumVehicles(Tail(rs))

\* C5: the report's totals are the baseline (1 area, 94 junctions, 198 edges, 100
\* vehicles) plus the sums over the 'Success' results only.
C5_TotalsOverSuccessOnly ==
    report.written =>
        report.totals = [areas     |-> 1 + Len(Succeeded(results)),
                         junctions |-> 94 + SumJunctions(Succeeded(results)),
                         edges     |-> 198 + SumEdges(Succeeded(results)),
                         vehicles  |-> 100 + SumVehicles(Succeeded(results))]

\* one 'Success' with 85 junctions / 180 edges, and a 'Failed' result that carries
\* nonzero counts: 2 areas, 179 junctions, 378 edges, 200 vehicles
C5_Witness ==
    /\ report.written
    /\ report.totals = [areas |-> 2, junctions |-> 179, edges |-> 378, vehicles |-> 200]
    /\ \E i \in 1..Len(results) :
          results[i].status = "Failed" /\ results[i].junctions = 85 /\ results[i].edges = 180

C8_EverySectionSuccessOrFailed ==
    report.written =>
        /\ Len(report.sections) = 1 + Len(AREAS)
        /\ report.sections[1].name = "Electronic City"
        /\ \A i \in 1..Len(AREAS) : report.sections[i + 1].name = AREAS[i].name
        /\ \A k \in 1..Len(report.sections) :
              report.sections[k].status \in {"Success", "Failed"}

\* C8 amended: one section for the baseline, whose status line is the fixed
\* 'Completed' text, and one per area of AREAS, in order, whose status line is the
\* area's 'Success' or 'Failed'.
C8_OneSectionPerAreaWithStatus ==
    report.written =>
        /\ Len(report.sections) = 1 + Len(AREAS)
        /\ report.sections[1].name = "Electronic City"
        /\ report.sections[1].status = "Completed (check mark)"
        /\ \A i \in 1..Len(AREAS) :
              /\ report.sections[i + 1].name = AREAS[i].name
              /\ report.sections[i + 1].num = i + 1
              /\ report.sections[i + 1].status = results[i].status
              /\ report.sections[i + 1].status \in {"Success", "Failed"}

C8_Witness ==
    /\ report.written
    /\ \E i, j \in 2..Len(report.sections) :
          report.sections[i].status = "Success" /\ report.sections[j].status = "Failed"

\* Something went wrong for the area: source missing, a tool missing, exiting
\* nonzero, timing out or leaving no output, or a config file that cannot be written
FailureOccurred ==
    \/ AREAS[idx].osm_file \notin disk
    \/ \E k \in 1..Len(calls) : calls[k].kind # "exit0" \/ ~calls[k].artifact
    \/ \E k \in 1..Len(io) : ~io[k].ok

\* C9: process_area never raises, and in each failure mode it returns 'Failed'.
C9_EveryFailureReturnsFailed ==
    (prog = "batch") =>
        /\ raised = "none" /\ pc # "crashed"
        /\ (AtReturn /\ FailureOccurred) => area_result.status = "Failed"

\* C9, the part the code keeps: no exception leaves process_area, and every
\* failure a stage detects gives 'Failed'
C9_NeverRaises ==
    (prog = "batch") =>
        /\ raised = "none" /\ pc # "crashed"
        /\ (AtReturn /\ (\/ AREAS[idx].osm_file \notin disk
                         \/ \E k \in 1..Len(calls) : StageFailedOn(calls[k])
                         \/ \E k \in 1..Len(io) : ~io[k].ok))
              => area_result.status = "Failed"

\* An invocation made with timeout= that ran past it
TimedOut(c) == c.kind = "timeout" /\ c.tool \notin {"osmium --version", "osmium extract"}

\* A printed message that says the tool timed out
TimeoutMsg(m) ==
    \/ m.text \in {"Trip generation timed out", "Route generation timed out",
                   "netconvert timed out"}
    \/ m.detail = "Command timed out after N seconds"

\* C10: a tool invocation that exceeds its timeout is the stage's last one, the
\* stage fails (the area is 'Failed', a single-area main returns 1), the message it
\* prints is a timeout message that no other failure prints, and no exception
\* leaves the stage.
C10_TimeoutIsAReportedFailure ==
    /\ raised = "none" /\ pc # "crashed"
    /\ \A k \in 1..Len(calls) :
          TimedOut(calls[k]) =>
              /\ k = Len(calls)
              /\ log # <<>> /\ TimeoutMsg(log[Len(log)])
              /\ IF prog = "batch"
                 THEN /\ area_result.status = "Failed"
                      /\ net_file = None \/ route_file = None
                      /\ pc \in {"pa_return", "main_loop", "main_summary", "done"}
                 ELSE pc = "done" /\ exit_code = 1
    /\ (\E j \in 1..Len(log) : TimeoutMsg(log[j])) =>
          calls # <<>> /\ TimedOut(calls[Len(calls)])

C10_Witness ==
    /\ AtReturn /\ Len(calls) = 3
    /\ calls[3].tool = "duarouter" /\ TimedOut(calls[3])
    /\ area_result.status = "Failed"

\* An invocation of a file-producing tool (netconvert, randomTrips.py, duarouter)
\* that exited 0 without its output file being there
ExitZeroNoArtifact(c) ==
    c.tool \in {"netconvert", "randomTrips", "duarouter"} /\ c.kind = "exit0" /\ ~c.artifact

\* The stage that made the last invocation reported failure: nothing ran after
\* it, and the area is 'Failed' (batch) or main returned 1 (single-area scripts)
ReportedFailureAt(k) ==
    /\ k = Len(calls)
    /\ IF prog = "batch"
       THEN /\ pc \in {"pa_return", "main_loop", "main_summary", "done"}
            /\ area_result.status = "Failed"
            /\ io = <<>>
       ELSE pc = "done" /\ exit_code = 1

\* C11: in every tool-backed stage (Convert, SynthesizeTrips, ComputeRoutes), a
\* tool that exits 0 without leaving the stage's output artifact makes the stage
\* report failure; exit code 0 alone never lets the pipeline go on.
C11_ExitZeroWithoutArtifactFails ==
    \A k \in 1..Len(calls) : ExitZeroNoArtifact(calls[k]) => ReportedFailureAt(k)

\* C11 for the stages that do test their output: every one but the trips step of
\* the batch script's generate_traffic
C11_CheckedStagesNeedArtifact ==
    \A k \in 1..Len(calls) :
        (ExitZeroNoArtifact(calls[k]) /\ ~(prog = "batch" /\ calls[k].tool = "randomTrips"))
            => ReportedFailureAt(k)

\* C12: every external tool invocation is bounded by a timeout, so no run of any
\* script (batch main, sumo_network.main after the menu, traffic_generator.main)
\* is ever left waiting for ever on a tool that does not return on its own.
C12_NoRunWaitsForEver == pc # "blocked"

\* C12 for the invocations that do pass timeout=: the batch script, the traffic
\* script and sumo_network's conversion (menu choice '1') never wait for ever
C12_TimedInvocationsReturn ==
    (prog \in {"batch", "traffic"} \/ choice = "1") => pc # "blocked"

\* process_area is about to return a 'Failed' result
AtFailedReturn == AtReturn /\ area_result.status = "Failed"

\* The step of process_area in which the area failed, from what happened: the
\* source check, step 1 (convert), step 2 (traffic) or step 3 (config)
FailedStep ==
    IF AREAS[idx].osm_file \notin disk THEN "source"
    ELSE IF io # <<>> THEN "config"
    ELSE IF calls[Len(calls)].tool = "netconvert" THEN "convert"
    ELSE "traffic"

\* The step a printed failure message names
StepOfMsg(m) ==
    CASE m.text = "ERROR: not found" -> "source"
      [] m.text \in {"Error converting", "netconvert failed"} -> "convert"
      [] m.text \in {"Trip generation failed", "Route generation failed",
                     "Error generating traffic"} -> "traffic"
      [] m.text = "Error creating config" -> "config"
      [] OTHER -> "none"

\* The printed cause: input missing, tool executable missing, tool ran and failed
CauseOfMsg(m) ==
    CASE m.text = "ERROR: not found" -> "input missing"
      [] m.detail = "[Errno 2] No such file or directory" -> "tool missing"
      [] m.text \in {"netconvert failed", "Trip generation failed",
                     "Route generation failed"} -> "tool failed"
      [] OTHER -> "other"

\* The last message printed for a failed area tells the causes apart
CausePrintedDistinctly ==
    AtFailedReturn =>
        LET m == log[Len(log)] IN
        /\ CauseOfMsg(m) = "input missing" <=> AREAS[idx].osm_file \notin disk
        /\ CauseOfMsg(m) = "tool missing"
              <=> (calls # <<>> /\ io = <<>> /\ calls[Len(calls)].kind = "notfound")
        /\ (calls # <<>> /\ io = <<>> /\ calls[Len(calls)].kind = "nonzero")
              => CauseOfMsg(m) = "tool failed"

Perms(n) == {p \in [1..n -> 1..n] : \A i, j \in 1..n : p[i] = p[j] => i = j}

\* The list rs reordered by p
Permuted(rs, p) == [k \in 1..Len(rs) |-> rs[p[k]]]

\* The area names of the per-area sections, in the order written
SectionNames(secs) == [k \in 1..(Len(secs) - 1) |-> secs[k + 1].name]

\* C14: the totals generate_final_report computes are the same for every
\* reordering of the results list, while the per-area sections are written in the
\* order of the list.
C14_TotalsIgnoreOrderSectionsFollowIt ==
    (prog = "render" /\ report.written) =>
        \A p \in Perms(Len(results)) :
            LET q == generate_final_report(Permuted(results, p)) IN
            /\ q.totals = report.totals
            /\ SectionNames(q.sections) = [k \in 1..Len(results) |-> results[p[k]].name]

\* a list with a 'Failed' and two 'Success' results of different counts has been
\* rendered, and one of its reorderings gives other sections
C14_Witness ==
    /\ prog = "render" /\ report.written /\ Len(results) = 3
    /\ results[1].status = "Failed" /\ results[1].junctions = 85
    /\ results[2].status = "Success" /\ results[2].junctions = 85
    /\ results[3].status = "Success" /\ results[3].junctions = 0
    /\ \E p \in Perms(3) :
          generate_final_report(Permuted(results, p)).sections # report.sections

\* Two files written to the same path
SamePath(a, b) == a.path = b.path

C16_NoRetries ==
    (prog = "batch") =>
        /\ \A j, k \in 1..Len(calls) : calls[j].tool = calls[k].tool => j = k
        /\ \A k \in 1..Len(calls) : StageFailedOn(calls[k]) => k = Len(calls)
        /\ \A i, j \in 1..Len(results) : results[i].name = results[j].name => i = j
        /\ InProcessArea =>
              /\ \A i \in 1..Len(results) : results[i].name # AREAS[idx].name
              /\ \A k \in 1..Len(calls) : calls[k].output \in Artifacts(AREAS[idx].name)

\* netconvert failed for the second area after the first one failed too: one
\* invocation for the area, one result so far
C16_Witness ==
    /\ AtReturn /\ idx = 2 /\ Len(results) = 1 /\ results[1].status = "Failed"
    /\ Len(calls) = 1 /\ calls[1].tool = "netconvert" /\ calls[1].kind = "nonzero"

\* The tool exited 0 and left its output file
ToolSucceeded(c) == c.kind = "exit0" /\ c.artifact

\* What the batch script takes for success: exit 0, and for netconvert and
\* duarouter the output file
StagePassed(c) == ~StageFailedOn(c)

\* The tools are invoked in the order netconvert, randomTrips.py, duarouter, the
\* counts are taken after netconvert and before randomTrips.py, the config files
\* are opened last, and each step is given the paths the earlier steps returned
OrderAndDataFlow ==
    LET n == AREAS[idx].name IN
    /\ \E m \in 0..3 : ToolsOf(calls) = SubSeq(<<"netconvert", "randomTrips", "duarouter">>, 1, m)
    /\ pc \in {"pa_stats", "pa_traffic"} => Len(calls) = 1 /\ io = <<>>
    /\ pc = "pa_convert" => calls = <<>> /\ io = <<>>
    /\ pc = "pa_config" => Len(calls) = 3 /\ io = <<>>
    /\ io # <<>> => Len(calls) = 3
    /\ Len(calls) >= 1 =>
          calls[1].inputs = {AREAS[idx].osm_file} /\ calls[1].output = NetFile(n)
    /\ Len(calls) >= 2 =>
          /\ net_file = calls[1].output
          /\ calls[2].inputs = {net_file} /\ calls[2].output = TripsFile(n)
    /\ Len(calls) >= 3 =>
          calls[3].inputs = {net_file, calls[2].output} /\ calls[3].output = RouteFile(n)
    /\ Len(io) = 2 =>
          /\ route_file = calls[3].output
          /\ io[2].content.net = net_file /\ io[2].content.route = route_file

\* C17: in process_area the stages run in the order Convert, Measure,
\* SynthesizeTrips, ComputeRoutes, AssembleConfig; no stage starts before the
\* preceding tool-backed stage has succeeded (its tool exited 0 and left its
\* artifact); each stage consumes the paths returned by the earlier stages.
C17_OrderedAfterSuccess ==
    InProcessArea =>
        /\ OrderAndDataFlow
        /\ \A k \in 1..Len(calls) :
              (k < Len(calls) \/ pc \in {"pa_stats", "pa_traffic", "pa_config"} \/ io # <<>>)
                  => ToolSucceeded(calls[k])

\* C17 with success as the script tests it (the trips file is not looked for)
C17_OrderedAfterPassed ==
    InProcessArea =>
        /\ OrderAndDataFlow
        /\ \A k \in 1..Len(calls) :
              (k < Len(calls) \/ pc \in {"pa_stats", "pa_traffic", "pa_config"} \/ io # <<>>)
                  => StagePassed(calls[k])

\* The network file of the area in hand could not be read by get_network_stats
MeasureFailed == reads # <<>> /\ ~reads[Len(reads)].readable

\* C18: when the network file cannot be read, get_network_stats gives (0, 0): the
\* area's junction and edge counts are 0, nothing is raised, the pipeline goes on
\* to the traffic step, and if the area ends 'Failed' it is on a tool or on a
\* config file, not on the measurement.
C18_MeasureFailureNeverFailsArea ==
    (prog = "batch" /\ MeasureFailed) =>
        /\ Len(reads) = 1 /\ reads[1].path = net_file
        /\ area_result.junctions = 0 /\ area_result.edges = 0
        /\ raised = "none" /\ pc # "crashed"
        /\ InProcessArea => pc \in {"pa_traffic", "pa_config", "pa_return"}
        /\ pc # "pa_traffic" => Len(calls) >= 2
        /\ area_result.status = "Failed" =>
              \/ pc \in {"pa_traffic", "pa_config"}
              \/ StageFailedOn(calls[Len(calls)])
              \/ \E k \in 1..Len(io) : ~io[k].ok

\* the network file was unreadable and the area still ended 'Success'
C18_Witness ==
    /\ AtReturn /\ MeasureFailed
    /\ area_result.status = "Success"
    /\ area_result.junctions = 0 /\ area_result.edges = 0
    /\ Len(calls) = 3 /\ Len(io) = 2

\* C19: the areas are processed one after the other in registry order: while an
\* area is in hand the results of all earlier areas, and only those, have been
\* appended, and every invocation and write is for that area; after each append
\* the last result is the area just processed; after the loop results[i] is the
\* result of AREAS[i], and the report's per-area sections follow that order.
C19_SequentialInRegistryOrder ==
    (prog = "batch") =>
        /\ \A i \in 1..Len(results) : results[i].name = AREAS[i].name
        /\ InProcessArea =>
              /\ Len(results) = idx - 1
              /\ area_result.name = AREAS[idx].name
              /\ \A k \in 1..Len(calls) : calls[k].output \in Artifacts(AREAS[idx].name)
              /\ \A k \in 1..Len(io) : io[k].path \in Artifacts(AREAS[idx].name)
        /\ pc = "main_loop" =>
              /\ Len(results) = idx - 1
              /\ idx > 1 => results[idx - 1] = area_result
        /\ pc \in {"main_summary", "done"} =>
              /\ Len(results) = Len(AREAS)
              /\ SectionNames(report.sections) = [i \in 1..Len(AREAS) |-> AREAS[i].name]
              /\ \A i \in 1..Len(AREAS) :
                    /\ report.sections[i + 1].num = i + 1
                    /\ report.sections[i + 1].status = results[i].status

\* the third area is in its traffic step with the first two results appended
C19_Witness ==
    /\ prog = "batch" /\ pc = "pa_traffic" /\ idx = 3 /\ Len(calls) = 1
    /\ Len(results) = 2
    /\ results[1].status = "Success" /\ results[2].status = "Failed"

\* The file whose presence the stage tests first
PreconditionOf(stage) ==
    CASE stage = "convert_to_sumo"       -> OSM_FILE
      [] stage = "check_files"           -> NETWORK_FILE
      [] stage = "generate_random_trips" -> RandomTripsScript

\* C20: a stage whose precondition fails (no source OSM file for
\* sumo_network.convert_to_sumo, no network file for check_files, no randomTrips.py
\* for generate_random_trips) returns failure and invokes no external tool; the
\* working directory is left as it was.
C20_FailedPreconditionInvokesNothing ==
    (prog \in PreconditionStages /\ pc # "stage" /\ PreconditionOf(prog) \notin disk) =>
        /\ pc = "done" /\ exit_code = 1
        /\ calls = <<>>
        /\ raised = "none"
        /\ Len(log) = 1 /\ log[1].text \in {"ERROR: not found", "ERROR: randomTrips.py not found"}

\* generate_random_trips returned failure for want of the script, with the network
\* file there
C20_Witness ==
    /\ prog = "generate_random_trips" /\ pc = "done" /\ exit_code = 1
    /\ RandomTripsScript \notin disk /\ NETWORK_FILE \in disk
    /\ calls = <<>>

\* Convert succeeded for the area in hand: netconvert exited 0 and the net file
\* was there
ConvertSucceeded ==
    calls # <<>> /\ calls[1].tool = "netconvert" /\ ToolSucceeded(calls[1])

\* C22: an area's result has a nonzero junction or edge count only if Convert
\* succeeded for it; a result that failed at the source check or at Convert has
\* junctions = 0 and edges = 0; every result, 'Success' or 'Failed', has
\* vehicles = 100.
C22_CountsOnlyAfterConvert ==
    (prog = "batch") =>
        /\ area_result.vehicles = 100
        /\ \A i \in 1..Len(results) : results[i].vehicles = 100
        /\ (area_result.junctions # 0 \/ area_result.edges # 0) =>
              /\ ConvertSucceeded
              /\ AREAS[IF InProcessArea THEN idx ELSE idx - 1].osm_file \in disk
        /\ (InProcessArea /\ ~ConvertSucceeded) =>
              /\ area_result.junctions = 0 /\ area_result.edges = 0
              /\ area_result.status = "Failed"
              /\ pc \in {"pa_convert", "pa_return"}
        /\ \A i \in 1..Len(results) :
              results[i].junctions >= 0 /\ results[i].edges >= 0

\* an area that failed after Convert keeps the counts measured on its network
C22_Witness ==
    /\ AtReturn /\ area_result.status = "Failed"
    /\ ConvertSucceeded /\ Len(calls) = 2
    /\ area_result.junctions = 85 /\ area_result.edges = 180
    /\ area_result.vehicles = 100

\* The message each step of traffic_generator.main prints when it succeeds, in
\* the order main calls the steps
TgSuccessMsgs ==
    <<"Found", "Trips file generated", "Route file generated",
      "additional file created", "config file created">>

\* The number of steps already run at each position of traffic_generator.main
TgStepsRun ==
    CASE pc = "tg_check"  -> {0}
      [] pc = "tg_trips"  -> {1}
      [] pc = "tg_routes" -> {2}
      [] pc = "tg_add"    -> {3}
      [] pc = "tg_config" -> {4}
      [] OTHER            -> 1..5

\* C23: traffic_generator.main runs check_files, trip generation, route
\* generation, additional-file creation and config-file creation in that order;
\* it returns 0 only after all five succeeded, and at the first step that fails
\* it returns 1 with no later step run.
C23_ZeroOnlyAfterAllStepsInOrder ==
    (prog = "traffic") =>
        /\ raised = "none"
        /\ pc \in {"tg_check", "tg_trips", "tg_routes", "tg_add", "tg_config", "done"}
        /\ Len(log) \in TgStepsRun
        /\ \A k \in 1..(Len(log) - 1) : log[k].text = TgSuccessMsgs[k]
        /\ pc # "done" =>
              /\ exit_code = -1
              /\ \A k \in 1..Len(log) : log[k].text = TgSuccessMsgs[k]
        /\ pc = "done" =>
              /\ exit_code \in {0, 1}
              /\ exit_code = 0 <=> (Len(log) = 5 /\ log[5].text = TgSuccessMsgs[5])
              /\ exit_code = 1 => log[Len(log)].text # TgSuccessMsgs[Len(log)]
        /\ exit_code = 0 =>
              /\ ToolsOf(calls) = <<"randomTrips", "duarouter">>
              /\ \A k \in 1..Len(calls) : ToolSucceeded(calls[k])
              /\ Len(io) = 2 /\ io[1].path = ADDITIONAL_FILE /\ io[2].path = CONFIG_FILE
              /\ \A k \in 1..Len(io) : io[k].ok
              /\ {NETWORK_FILE, RandomTripsScript, TRIPS_FILE, ROUTE_FILE,
                  ADDITIONAL_FILE, CONFIG_FILE} \subseteq disk
        /\ Len(calls) <= 2 /\ Len(io) <= 2
        /\ Len(log) <= 2 => io = <<>>
        /\ Len(log) <= 1 => calls = <<>>

\* route generation failed after the trips were generated: main returned 1 and
\* neither file-writing step ran
C23_Witness ==
    /\ prog = "traffic" /\ pc = "done" /\ exit_code = 1
    /\ Len(log) = 3 /\ Len(calls) = 2 /\ ToolSucceeded(calls[1])
    /\ calls[2].tool = "duarouter" /\ calls[2].kind = "nonzero"
    /\ io = <<>>

\* The messages sumo_network.convert_to_sumo prints
ConvertMsgs ==
    {"ERROR: not found", "ERROR: 'netconvert' command not found",
     "Error checking netconvert", "netconvert timed out", "Error running netconvert",
     "SUMO network created successfully",
     "netconvert completed but output file not found",
     "netconvert failed with return code"}

\* sumo_network.main has reached its call of convert_to_sumo
ConvertAttempted ==
    pc = "sn_convert" \/ \E k \in 1..Len(log) : log[k].text \in ConvertMsgs

\* The extraction from the PBF file succeeded: the probe found osmium (whatever
\* its exit code), `osmium extract` exited 0 and the OSM file was there
ExtractSucceeded ==
    /\ Len(calls) >= 2
    /\ calls[1].tool = "osmium --version" /\ calls[1].kind \in {"exit0", "nonzero"}
    /\ calls[2].tool = "osmium extract" /\ ToolSucceeded(calls[2])

\* The conversion succeeded: netconvert exited 0 and the net file was there
ConversionSucceeded ==
    /\ calls # <<>> /\ calls[Len(calls)].tool = "netconvert"
    /\ ToolSucceeded(calls[Len(calls)])
    /\ log[Len(log)].text = "SUMO network created successfully"

\* C24: sumo_network.main attempts the conversion only after choice '1' with the
\* OSM file present or choice '2' with the PBF file present and a successful
\* extraction; choice '3' returns 0 without converting; any other choice returns
\* 1; and main returns 0 exactly when choice '3' was taken or the conversion
\* succeeded.
C24_ConvertOnlyAfterValidChoice ==
    (prog = "network") =>
        /\ ConvertAttempted =>
              /\ OSM_FILE \in disk
              /\ \/ choice = "1" /\ \A k \in 1..Len(calls) :
                                       calls[k].tool \in {"netconvert --version", "netconvert"}
                 \/ choice = "2" /\ PBF_FILE \in disk /\ ExtractSucceeded
        /\ choice = "3" =>
              pc = "done" /\ exit_code = 0 /\ calls = <<>> /\ ~ConvertAttempted
        /\ choice \notin {"", "1", "2", "3"} =>
              pc = "done" /\ exit_code = 1 /\ calls = <<>> /\ ~ConvertAttempted
        /\ pc = "done" =>
              /\ exit_code \in {0, 1}
              /\ exit_code = 0 <=> (choice = "3" \/ ConversionSucceeded)
        /\ pc # "done" => exit_code = -1
        /\ raised = "none"

\* choice '2': the extraction succeeded, the conversion was attempted and failed
C24_Witness ==
    /\ prog = "network" /\ pc = "done" /\ choice = "2" /\ exit_code = 1
    /\ ExtractSucceeded /\ ConvertAttempted
    /\ Len(calls) = 4 /\ calls[4].tool = "netconvert" /\ calls[4].kind = "exit0"
    /\ ~calls[4].artifact

\* The source file and the five artifact paths of the area at position a
OwnPaths(a) == {AREAS[a].osm_file} \cup Artifacts(AREAS[a].name)

\* The paths the call for area a has written: tool outputs and opened files
WrittenBy(a) ==
    {calls[a][k].output : k \in 1..Len(calls[a])} \cup {io[a][k].path : k \in 1..Len(io[a])}

\* The paths the call for area a has written, handed to a tool, read, or
\* referenced in its config file
UsedBy(a) ==
    WrittenBy(a)
        \cup UNION {calls[a][k].inputs : k \in 1..Len(calls[a])}
        \cup {reads[a][k].path : k \in 1..Len(reads[a])}
        \cup (UNION {{io[a][k].content.net, io[a][k].content.route, io[a][k].content.add} :
                        k \in 1..Len(io[a])} \ {""})

\* The behaviour a recorded invocation met
OutcomeOf(c) == [kind |-> c.kind, artifact |-> c.artifact]

\* What create_config met, from the recorded open() attempts
WriteOutcomeOf(ws) ==
    IF Len(ws) = 1 THEN "add_fails"
    ELSE IF ~ws[2].ok THEN "config_fails"
    ELSE "ok"

\* The result of process_area for the area at position a run alone, in a working
\* directory that holds at most its own source file, with its tools, its network
\* file and its open() calls behaving as they did in the concurrent run.  Status
\* "unknown" when the concurrent run never got to a step the lone run takes.
AloneResult(a) ==
    LET area    == AREAS[a]
        n       == area.name
        d0      == disk \cap {area.osm_file}
        base    == [name |-> n, status |-> "Failed", junctions |-> 0, edges |-> 0,
                    vehicles |-> VEHICLES]
        unknown == [base EXCEPT !.status = "unknown"]
    IN  IF SourceMissing(area, d0) THEN base
        ELSE IF calls[a] = <<>> THEN unknown
        ELSE
        LET s1 == convert_to_sumo(area.osm_file, n, OutcomeOf(calls[a][1]), d0) IN
        IF s1.ret = None THEN base
        ELSE IF reads[a] = <<>> \/ Len(calls[a]) < 2 THEN unknown
        ELSE
        LET st       == get_network_stats(ReadOn(s1.disk, s1.ret, reads[a][1].file))
            measured == [base EXCEPT !.junctions = st[1], !.edges = st[2]]
            o1       == OutcomeOf(calls[a][2])
            o2       == OutcomeOf(calls[a][Len(calls[a])])
            s2       == generate_traffic(s1.ret, n, o1, o2, s1.disk)
        IN  IF s2.ret = None THEN measured
            ELSE IF io[a] = <<>> THEN unknown
            ELSE
            LET s3 == create_config(s1.ret, s2.ret, n, WriteOutcomeOf(io[a]), s2.disk) IN
            IF s3.ret = None THEN measured ELSE [measured EXCEPT !.status = "Success"]

\* C21: when process_area runs concurrently for distinct areas of the registry,
\* under every interleaving no path is written by two areas (each call writes
\* only its own area's artifacts, and every path it hands to a tool or reads is
\* its own area's too), the module-level results list is not written, and each
\* call returns the result it would return run alone.
C21_ConcurrentAreasDoNotInterfere ==
    (prog = "concurrent") =>
        /\ \A a, b \in Running :
              a # b => WrittenBy(a) \cap WrittenBy(b) = {} /\ UsedBy(a) \cap UsedBy(b) = {}
        /\ \A a \in Running :
              /\ WrittenBy(a) \subseteq Artifacts(AREAS[a].name)
              /\ UsedBy(a) \subseteq OwnPaths(a)
              /\ area_result[a].name = AREAS[a].name
              /\ pc[a] = "returned" => area_result[a] = AloneResult(a)
        /\ results = <<>>

\* two calls have returned, one 'Success' and one 'Failed' in its traffic step,
\* each having run its tools while the other was under way
C21_Witness ==
    /\ prog = "concurrent"
    /\ \E a, b \in Running :
          /\ a # b /\ pc[a] = "returned" /\ pc[b] = "returned"
          /\ area_result[a].status = "Success" /\ Len(io[a]) = 2
          /\ area_result[b].status = "Failed" /\ Len(calls[b]) = 3
          /\ area_result[b].junctions = 85
          /\ disk = {AREAS[a].osm_file, AREAS[b].osm_file}
                        \cup Artifacts(AREAS[a].name) \cup {NetFile(AREAS[b].name)}

====
